---- MODULE Spec2Model ----
(***************************************************************************)
(* A model of the tinydi Container (src/src/container.ts, the version of   *)
(* the class with references, lines 185-335): a registry of factories, a   *)
(* cache of instances, and the resolution of batches of tokens through     *)
(* resolve and resolveAsync.                                               *)
(*                                                                         *)
(* A build function is modelled by what the container can see of it: it    *)
(* optionally resolves one factory handle that it captured (a nested       *)
(* container.resolve([dep]) as in the README), and then returns a fresh    *)
(* object, a primitive, undefined, or throws (a synchronous build), or     *)
(* returns a new promise that settles later (an asynchronous build; a      *)
(* throw of its nested resolution rejects the promise at once).  Builds    *)
(* that resolve their own name are left out: the container does not handle *)
(* circular dependencies.                                                  *)
(*                                                                         *)
(* The variables lastRet, inval and last are history: they record what the *)
(* resolveFactory calls of the last operation saw and returned, so that    *)
(* properties of single resolutions can be stated over states.             *)
(***************************************************************************)
EXTENDS Integers, Sequences, FiniteSets, TLC

\* ---------------------------------------------------------------- bounds
MaxHandles == 2      \* register/registerAsync calls in a run
MaxObjs    == 2      \* fresh objects returned by synchronous builds in a run
MaxProms   == 2      \* promises returned by asynchronous builds in a run
MaxCalls   == 1      \* resolveAsync calls in flight at a time
MaxBatch   == 2      \* tokens in one batch
MaxOps     == 5      \* calls of the container's methods in a run

Names == {"x", "y"}

\* ---------------------------------------------------------------- values
\* JavaScript values as the container distinguishes them.  "absent" is not a
\* value: it marks a Map key or a result field that does not exist.
Absent  == [t |-> "absent", id |-> 0]
Undef   == [t |-> "undef", id |-> 0]
Const   == [t |-> "const", id |-> 0]     \* a primitive, the same at every build
Obj(k)  == [t |-> "obj", id |-> k]
Prom(k) == [t |-> "promise", id |-> k]
ValOf(k) == [t |-> "val", id |-> k]      \* what promise k is fulfilled with

IsPromise(v) == v.t = "promise"

SyncOuts == {"obj", "const", "undef", "throw"}

\* ---------------------------------------------------------------- tokens
NoHandle == 0
Ref(n)    == [ref |-> TRUE, name |-> n, h |-> NoHandle]
Handle(hs, i) == [ref |-> FALSE, name |-> hs[i].name, h |-> i]

VARIABLES
  factories,   \* Container.factories: name -> index of the registered factory
  instances,   \* Container.instances: name -> entry (Absent: no entry)
  handles,     \* the Factory records returned by register/registerAsync
  refs,        \* the Reference records returned by reference, by name
  pstate,      \* the promises returned by asynchronous builds: id -> state
  nobj,        \* objects created by synchronous builds so far
  ops,         \* calls of the container's methods so far
  calls,       \* the resolveAsync calls that are waiting at their await
  lastRet,     \* history: what the last resolution of a name returned
  inval,       \* history: the last invalidation of a name not yet followed
               \*          by a resolution, and the entry it removed
  last         \* history: the last operation, its batch and its resolveFactory calls

vars == <<factories, instances, handles, refs, pstate, nobj, ops, calls,
          lastRet, inval, last>>

NoCall == [names |-> {}, waits |-> <<>>, result |-> [n \in Names |-> Absent],
           status |-> "none", err |-> "none", failed |-> 0]
NoInval == [by |-> "none", old |-> Absent]
NoLast  == [op |-> "init", name |-> "", tokens |-> <<>>, events |-> <<>>,
            result |-> [n \in Names |-> Absent], outcome |-> "none", call |-> NoCall]

Init ==
  /\ factories = [n \in Names |-> NoHandle]
  /\ instances = [n \in Names |-> Absent]
  /\ handles = <<>>
  /\ refs = [n \in Names |-> "none"]
  /\ pstate = <<>>
  /\ nobj = 0
  /\ ops = 0
  /\ calls = <<>>
  /\ lastRet = [n \in Names |-> Absent]
  /\ inval = [n \in Names |-> NoInval]
  /\ last = NoLast

\* ------------------------------------------------------- resolution engine
\* The part of the state a resolution reads and writes, threaded through the
\* nested calls of one operation.
RunState ==
  [inst |-> instances, ps |-> pstate, n |-> nobj,
   lastRet |-> lastRet, inval |-> inval, events |-> <<>>, thrown |-> "none",
   result |-> [nm \in Names |-> Absent], waits |-> <<>>]

\* Map.prototype.get: undefined for a missing key.
Get(inst, nm) == IF inst[nm] = Absent THEN Undef ELSE inst[nm]

Event(R, tok, depth, hit, built, out, ret, inst2) ==
  [tok |-> tok, depth |-> depth, had |-> R.inst[tok.name], hit |-> hit,
   built |-> built, out |-> out, ret |-> ret, prevRet |-> R.lastRet[tok.name],
   inval |-> R.inval[tok.name], reg |-> factories[tok.name],
   cached |-> inst2[tok.name]]

RECURSIVE resolveFactory(_, _, _)
RECURSIVE build(_, _, _)

\* Mutant of build: a build that throws leaves a cache entry for its name.
buildCachingFailure(R, h, depth) ==
  LET hd == handles[h]
      R1 == IF hd.dep # NoHandle
              THEN resolveFactory(R, Handle(handles, hd.dep), depth + 1).r
              ELSE R
  IN IF hd.kind = "sync"
       THEN IF R1.thrown # "none" THEN [r |-> R1, ret |-> Absent]
            ELSE CASE hd.out = "obj" ->
                        [r |-> [R1 EXCEPT !.n = @ + 1], ret |-> Obj(R1.n + 1)]
                   [] hd.out = "const" -> [r |-> R1, ret |-> Const]
                   [] hd.out = "undef" -> [r |-> R1, ret |-> Undef]
                   [] OTHER -> [r |-> [R1 EXCEPT !.thrown = "BuildFailure", !.inst[hd.name] = Const],
                                ret |-> Absent]
       ELSE [r |-> [R1 EXCEPT !.ps = Append(@, IF R1.thrown # "none" THEN "rejected" ELSE "pending"),
                              !.thrown = "none"],
             ret |-> Prom(Len(R1.ps) + 1)]

\* factory.resolve(this): the build function of handle h.
build(R, h, depth) ==
  LET hd == handles[h]
      R1 == IF hd.dep # NoHandle
              THEN resolveFactory(R, Handle(handles, hd.dep), depth + 1).r
              ELSE R
  IN IF hd.kind = "sync"
       THEN IF R1.thrown # "none" THEN [r |-> R1, ret |-> Absent]
            ELSE CASE hd.out = "obj" ->
                        [r |-> [R1 EXCEPT !.n = @ + 1], ret |-> Obj(R1.n + 1)]
                   [] hd.out = "const" -> [r |-> R1, ret |-> Const]
                   [] hd.out = "undef" -> [r |-> R1, ret |-> Undef]
                   [] OTHER -> [r |-> [R1 EXCEPT !.thrown = "BuildFailure"], ret |-> Absent]
       ELSE \* an async function: a throw in its body rejects the promise it returns
            [r |-> [R1 EXCEPT !.ps = Append(@, IF R1.thrown # "none" THEN "rejected" ELSE "pending"),
                              !.thrown = "none"],
             ret |-> Prom(Len(R1.ps) + 1)]

\* Mutants of ActualFactory: every token is looked up in the registry; a
\* Reference is bound to the first factory registered under its name.
ActualFactoryAlwaysRegistry(tok) == factories[tok.name]
ActualFactoryFirstRegistered(tok) ==
  IF tok.ref THEN CHOOSE i \in 1..Len(handles) :
                    /\ handles[i].name = tok.name
                    /\ \A j \in 1..Len(handles) : handles[j].name = tok.name => i <= j
  ELSE tok.h

\* The factory a token stands for: a Reference is looked up in the registry
\* now, a Factory is used as it is.
ActualFactory(tok) == IF tok.ref THEN factories[tok.name] ELSE tok.h

\* Mutant of NotFoundResult: the missing factory is swallowed, undefined is
\* cached and returned.
NotFoundSwallowed(R, tok, depth) ==
  LET inst2 == [R.inst EXCEPT ![tok.name] = Undef]
  IN [r |-> [R EXCEPT !.inst = inst2, !.lastRet[tok.name] = Undef, !.inval[tok.name] = NoInval,
                      !.events = Append(@, Event(R, tok, depth, FALSE, NoHandle, "ret", Undef, inst2))],
      ret |-> Undef]

\* throw new Error(`Factory with name "..." not found`)
NotFoundResult(R, tok, depth) ==
  [r |-> [R EXCEPT !.thrown = "NotFound", !.inval[tok.name] = NoInval,
                   !.events = Append(@, Event(R, tok, depth, FALSE, NoHandle, "NotFound", Absent, R.inst))],
   ret |-> Absent]

\* Container.resolveFactory
resolveFactory(R, tok, depth) ==
  LET nm == tok.name
  IN IF tok.ref /\ factories[nm] = NoHandle
       THEN NotFoundResult(R, tok, depth)
       ELSE
         LET actualFactory == ActualFactory(tok)
             existingInstance == Get(R.inst, nm)
         IN IF existingInstance # Undef
              THEN [r |-> [R EXCEPT !.lastRet[nm] = existingInstance, !.inval[nm] = NoInval,
                                    !.events = Append(@, Event(R, tok, depth, TRUE, NoHandle, "ret", existingInstance, R.inst))],
                    ret |-> existingInstance]
              ELSE
                LET b == build(R, actualFactory, depth)
                    Rb == b.r
                IN IF Rb.thrown # "none"
                     THEN [r |-> [Rb EXCEPT !.inval[nm] = NoInval,
                                            !.events = Append(@, Event(R, tok, depth, FALSE, actualFactory, Rb.thrown, Absent, Rb.inst))],
                           ret |-> Absent]
                     ELSE LET inst2 == [Rb.inst EXCEPT ![handles[actualFactory].name] = b.ret]
                          IN [r |-> [Rb EXCEPT !.inst = inst2, !.lastRet[nm] = b.ret, !.inval[nm] = NoInval,
                                               !.events = Append(@, Event(R, tok, depth, FALSE, actualFactory, "ret", b.ret, inst2))],
                              ret |-> b.ret]

\* Mutant of resolveAsyncLoop: the loop awaits each promise where it meets
\* it, so the tokens after the first promise are resolved after the wait.
RECURSIVE resolveAsyncLoopSequential(_, _, _)
resolveAsyncLoopSequential(R, tokens, i) ==
  IF i > Len(tokens) \/ R.thrown # "none" THEN R
  ELSE LET c == resolveFactory(R, tokens[i], 0)
       IN IF c.r.thrown # "none" THEN c.r
          ELSE IF IsPromise(c.ret)
            THEN [c.r EXCEPT !.waits = Append(@, [p |-> c.ret.id, name |-> tokens[i].name])]
            ELSE resolveAsyncLoopSequential([c.r EXCEPT !.result[tokens[i].name] = c.ret],
                                            tokens, i + 1)

\* The loop of Container.resolveAsync over factories[i..]
RECURSIVE resolveAsyncLoop(_, _, _)
resolveAsyncLoop(R, tokens, i) ==
  IF i > Len(tokens) \/ R.thrown # "none" THEN R
  ELSE LET c == resolveFactory(R, tokens[i], 0)
       IN resolveAsyncLoop(
            IF c.r.thrown # "none" THEN c.r
            ELSE IF IsPromise(c.ret)   \* resolved instanceof Promise
              THEN [c.r EXCEPT !.waits = Append(@, [p |-> c.ret.id, name |-> tokens[i].name])]
              ELSE [c.r EXCEPT !.result[tokens[i].name] = c.ret],
            tokens, i + 1)

\* Mutant of resolveLoop: a promise is set aside to be awaited, as in resolveAsync.
resolveLoopAwaiting(R, tokens, i) == resolveAsyncLoop(R, tokens, i)

\* Mutant of resolveLoop: a batch is atomic; when a token fails, the cache
\* is put back as the batch found it.
RECURSIVE resolveLoopAtomic(_, _, _)
resolveLoopAtomic(R, tokens, i) ==
  IF i > Len(tokens) \/ R.thrown # "none" THEN R
  ELSE LET c == resolveFactory(R, tokens[i], 0)
       IN resolveLoopAtomic(IF c.r.thrown # "none" THEN [c.r EXCEPT !.inst = instances]
                            ELSE [c.r EXCEPT !.result[tokens[i].name] = c.ret],
                            tokens, i + 1)

\* The loop of Container.resolve over factories[i..]
RECURSIVE resolveLoop(_, _, _)
resolveLoop(R, tokens, i) ==
  IF i > Len(tokens) \/ R.thrown # "none" THEN R
  ELSE LET c == resolveFactory(R, tokens[i], 0)
       IN resolveLoop(IF c.r.thrown # "none" THEN c.r
                      ELSE [c.r EXCEPT !.result[tokens[i].name] = c.ret],
                      tokens, i + 1)

\* ------------------------------------------------------------- operations
TokenSet ==
  {Handle(handles, i) : i \in 1..Len(handles)} \cup {Ref(nm) : nm \in {m \in Names : refs[m] # "none"}}

Batches == UNION {[1..k -> TokenSet] : k \in 1..MaxBatch}

\* A build may resolve a handle it captured: one created before it, of
\* another name.  (Builds that return a primitive are taken without one.)
Deps(nm, out) ==
  {NoHandle} \cup {i \in 1..Len(handles) : handles[i].name # nm /\ out \in {"obj", "throw", "promise"}}

\* The two names are interchangeable: the first record made is for "x".
FirstIsX(nm) == (handles = <<>> /\ \A m \in Names : refs[m] = "none") => nm = "x"

\* Mutant of SetFactory: the Factory is handed out without being recorded.
SetFactoryNothing(reg, nm, h) == reg

\* Mutant of SetFactory: a name that is registered keeps its first factory.
SetFactoryKeepFirst(reg, nm, h) == IF reg[nm] # NoHandle THEN reg ELSE [reg EXCEPT ![nm] = h]

\* this.factories.set(name, factory)
SetFactory(reg, nm, h) == [reg EXCEPT ![nm] = h]

RegisterAs(nm, kind, out, dep, op) ==
  /\ Len(handles) < MaxHandles
  /\ FirstIsX(nm)
  /\ ops < MaxOps
  /\ ops' = ops + 1
  /\ handles' = Append(handles, [name |-> nm, kind |-> kind, out |-> out, dep |-> dep])
  /\ factories' = SetFactory(factories, nm, Len(handles) + 1)
  /\ last' = [NoLast EXCEPT !.op = op, !.name = nm, !.outcome = "returned"]
  /\ UNCHANGED <<instances, refs, pstate, nobj, calls, lastRet, inval>>

\* Container.register
Register(nm, out, dep) == RegisterAs(nm, "sync", out, dep, "register")

\* Container.registerAsync
RegisterAsync(nm, dep) == RegisterAs(nm, "async", "promise", dep, "registerAsync")

\* Container.reference; the history remembers whether the name was registered
Reference(nm) ==
  /\ refs[nm] = "none"
  /\ FirstIsX(nm)
  /\ ops < MaxOps
  /\ ops' = ops + 1
  /\ refs' = [refs EXCEPT ![nm] = IF factories[nm] = NoHandle THEN "early" ELSE "late"]
  /\ last' = [NoLast EXCEPT !.op = "reference", !.name = nm, !.outcome = "returned"]
  /\ UNCHANGED <<factories, instances, handles, pstate, nobj, calls, lastRet, inval>>

\* Container.resolve
Resolve(tokens) ==
  LET R == resolveLoop(RunState, tokens, 1)
  IN /\ ops < MaxOps
     /\ ops' = ops + 1
     /\ R.n <= MaxObjs
     /\ Len(R.ps) <= MaxProms
     /\ instances' = R.inst
     /\ pstate' = R.ps
     /\ nobj' = R.n
     /\ lastRet' = R.lastRet
     /\ inval' = R.inval
     /\ last' = [op |-> "resolve", name |-> "", tokens |-> tokens, events |-> R.events,
                 result |-> IF R.thrown = "none" THEN R.result ELSE [nm \in Names |-> Absent],
                 outcome |-> IF R.thrown = "none" THEN "returned" ELSE R.thrown,
                 call |-> NoCall]
     /\ UNCHANGED <<factories, handles, refs, calls>>

\* Mutant of Deliver: an invalidation cancels the build for those who wait;
\* a callback delivers only while the cache still holds its promise.
RECURSIVE DeliverIfCached(_, _, _, _)
DeliverIfCached(result, waits, i, p) ==
  IF i > Len(waits) THEN result
  ELSE DeliverIfCached(IF waits[i].p = p /\ instances[waits[i].name] = Prom(p)
                         THEN [result EXCEPT ![waits[i].name] = ValOf(p)] ELSE result,
                       waits, i + 1, p)

\* The .then callbacks of a call that run when promise p is fulfilled.
RECURSIVE Deliver(_, _, _, _)
Deliver(result, waits, i, p) ==
  IF i > Len(waits) THEN result
  ELSE Deliver(IF waits[i].p = p THEN [result EXCEPT ![waits[i].name] = ValOf(p)] ELSE result,
               waits, i + 1, p)

\* The callbacks on the promises that were already fulfilled when awaited.
RECURSIVE DeliverSettled(_, _, _, _)
DeliverSettled(result, waits, i, ps) ==
  IF i > Len(waits) THEN result
  ELSE DeliverSettled(IF ps[waits[i].p] = "fulfilled"
                        THEN [result EXCEPT ![waits[i].name] = ValOf(waits[i].p)] ELSE result,
                      waits, i + 1, ps)

\* Mutant of FirstRejected: of the promises found rejected, the last one wins.
LastRejected(waits, ps) ==
  LET bad == {i \in 1..Len(waits) : ps[waits[i].p] = "rejected"}
  IN IF bad = {} THEN 0 ELSE waits[CHOOSE i \in bad : \A j \in bad : j <= i].p

\* The first promise of waits that is rejected (0: none); Promise.all fails with it.
FirstRejected(waits, ps) ==
  LET bad == {i \in 1..Len(waits) : ps[waits[i].p] = "rejected"}
  IN IF bad = {} THEN 0 ELSE waits[CHOOSE i \in bad : \A j \in bad : i <= j].p

\* Container.resolveAsync, up to its await.  A throw in the loop rejects the
\* promise that the async function returns, at once; otherwise the call waits.
ResolveAsync(tokens) ==
  LET R == resolveAsyncLoop(RunState, tokens, 1)
      call == [names |-> {tokens[i].name : i \in 1..Len(tokens)},
               waits |-> R.waits,
               result |-> IF R.thrown = "none" THEN DeliverSettled(R.result, R.waits, 1, R.ps)
                          ELSE [nm \in Names |-> Absent],
               status |-> IF R.thrown = "none" THEN "waiting" ELSE "rejected",
               err |-> R.thrown,
               failed |-> IF R.thrown = "none" THEN FirstRejected(R.waits, R.ps) ELSE 0]
  IN /\ Len(calls) < MaxCalls
     /\ ops < MaxOps
     /\ ops' = ops + 1
     /\ R.n <= MaxObjs
     /\ Len(R.ps) <= MaxProms
     /\ instances' = R.inst
     /\ pstate' = R.ps
     /\ nobj' = R.n
     /\ lastRet' = R.lastRet
     /\ inval' = R.inval
     /\ calls' = IF R.thrown = "none" THEN Append(calls, call) ELSE calls
     /\ last' = [op |-> "resolveAsync", name |-> "", tokens |-> tokens, events |-> R.events,
                 result |-> [nm \in Names |-> Absent],
                 outcome |-> IF R.thrown = "none" THEN "promise" ELSE "rejected",
                 call |-> call]
     /\ UNCHANGED <<factories, handles, refs>>

\* Mutant of Settle: a rejection evicts the cache entry of the promise, so
\* that the next resolution of the name builds again.
SettleEvictsFailure(p, ok) ==
  /\ p \in 1..Len(pstate)
  /\ pstate[p] = "pending"
  /\ pstate' = [pstate EXCEPT ![p] = IF ok THEN "fulfilled" ELSE "rejected"]
  /\ instances' = [nm \in Names |-> IF ~ok /\ instances[nm] = Prom(p) THEN Absent
                                     ELSE instances[nm]]
  /\ calls' = [c \in 1..Len(calls) |->
                 IF ok THEN [calls[c] EXCEPT !.result = Deliver(@, calls[c].waits, 1, p)]
                 ELSE IF calls[c].failed = 0 /\ \E i \in 1..Len(calls[c].waits) : calls[c].waits[i].p = p
                   THEN [calls[c] EXCEPT !.failed = p]
                   ELSE calls[c]]
  /\ last' = [NoLast EXCEPT !.op = "settle"]
  /\ UNCHANGED <<factories, handles, refs, nobj, ops, lastRet, inval>>

\* A pending promise of an asynchronous build settles; the callbacks that
\* resolveAsync calls attached to it run.
Settle(p, ok) ==
  /\ p \in 1..Len(pstate)
  /\ pstate[p] = "pending"
  /\ pstate' = [pstate EXCEPT ![p] = IF ok THEN "fulfilled" ELSE "rejected"]
  /\ calls' = [c \in 1..Len(calls) |->
                 IF ok THEN [calls[c] EXCEPT !.result = Deliver(@, calls[c].waits, 1, p)]
                 ELSE IF calls[c].failed = 0 /\ \E i \in 1..Len(calls[c].waits) : calls[c].waits[i].p = p
                   THEN [calls[c] EXCEPT !.failed = p]
                   ELSE calls[c]]
  /\ last' = [NoLast EXCEPT !.op = "settle"]
  /\ UNCHANGED <<factories, instances, handles, refs, nobj, ops, lastRet, inval>>

\* Mutant of AllFulfilled: the join completes when one promise is fulfilled.
AnyFulfilled(c) == \E i \in 1..Len(c.waits) : pstate[c.waits[i].p] = "fulfilled"

\* Mutant of AllFulfilled: the join also needs the promises it awaits to be
\* in the cache still, so that an invalidation leaves the call waiting.
AllFulfilledAndCached(c) ==
  \A i \in 1..Len(c.waits) :
    pstate[c.waits[i].p] = "fulfilled" /\ instances[c.waits[i].name] = Prom(c.waits[i].p)

AllFulfilled(c) == \A i \in 1..Len(c.waits) : pstate[c.waits[i].p] = "fulfilled"

Remove(seq, c) == [i \in 1..(Len(seq) - 1) |-> IF i < c THEN seq[i] ELSE seq[i + 1]]

\* await Promise.all(promises) of a resolveAsync call completes: the call
\* returns its mapping, or fails with the first rejection
Join(c) ==
  /\ c \in 1..Len(calls)
  /\ \/ /\ calls[c].failed # 0
        /\ last' = [NoLast EXCEPT !.op = "join", !.outcome = "rejected",
                      !.call = [calls[c] EXCEPT !.status = "rejected", !.err = "BuildFailure",
                                                !.result = [nm \in Names |-> Absent]]]
     \/ /\ calls[c].failed = 0
        /\ AllFulfilled(calls[c])
        /\ last' = [NoLast EXCEPT !.op = "join", !.outcome = "returned", !.result = calls[c].result,
                      !.call = [calls[c] EXCEPT !.status = "fulfilled"]]
  /\ calls' = Remove(calls, c)
  /\ UNCHANGED <<factories, instances, handles, refs, pstate, nobj, ops, lastRet, inval>>

\* Mutant of Delete: every entry goes.
DeleteAll(inst, nm) == [n \in Names |-> Absent]

\* Mutant of Delete: the entry stays.
DeleteNothing(inst, nm) == inst

\* this.instances.delete(name)
Delete(inst, nm) == [inst EXCEPT ![nm] = Absent]

\* Mutant of ClearInstance: a name that has no cache entry is an error.
ClearInstanceStrict(nm) ==
  /\ ops < MaxOps
  /\ ops' = ops + 1
  /\ instances' = Delete(instances, nm)
  /\ lastRet' = [lastRet EXCEPT ![nm] = Absent]
  /\ inval' = [inval EXCEPT ![nm] = [by |-> "clearInstance", old |-> instances[nm]]]
  /\ last' = [NoLast EXCEPT !.op = "clearInstance", !.name = nm,
                            !.outcome = IF instances[nm] = Absent THEN "NotFound" ELSE "returned"]
  /\ UNCHANGED <<factories, handles, refs, pstate, nobj, calls>>

\* Container.clearInstance
ClearInstance(nm) ==
  /\ ops < MaxOps
  /\ ops' = ops + 1
  /\ instances' = Delete(instances, nm)
  /\ lastRet' = [lastRet EXCEPT ![nm] = Absent]
  /\ inval' = [inval EXCEPT ![nm] = [by |-> "clearInstance", old |-> instances[nm]]]
  /\ last' = [NoLast EXCEPT !.op = "clearInstance", !.name = nm, !.outcome = "returned"]
  /\ UNCHANGED <<factories, handles, refs, pstate, nobj, calls>>

\* Container.clearAllInstances
ClearAllInstances ==
  /\ ops < MaxOps
  /\ ops' = ops + 1
  /\ instances' = [nm \in Names |-> Absent]
  /\ lastRet' = [nm \in Names |-> Absent]
  /\ inval' = [nm \in Names |-> [by |-> "clearAllInstances", old |-> instances[nm]]]
  /\ last' = [NoLast EXCEPT !.op = "clearAllInstances", !.outcome = "returned"]
  /\ UNCHANGED <<factories, handles, refs, pstate, nobj, calls>>

Next ==
  \/ \E nm \in Names : \E out \in SyncOuts : \E dep \in Deps(nm, out) : Register(nm, out, dep)
  \/ \E nm \in Names : \E dep \in Deps(nm, "promise") : RegisterAsync(nm, dep)
  \/ \E nm \in Names : Reference(nm)
  \/ \E tokens \in Batches : Resolve(tokens)
  \/ \E tokens \in Batches : ResolveAsync(tokens)
  \/ \E p \in 1..MaxProms : \E ok \in BOOLEAN : Settle(p, ok)
  \/ \E c \in 1..MaxCalls : Join(c)
  \/ \E nm \in Names : ClearInstance(nm)
  \/ ClearAllInstances

Spec == Init /\ [][Next]_vars

\* The continuation of resolveAsync after its await is a job of the event
\* loop: once Promise.all has settled, it is run.  Nothing is assumed of the
\* settlement of the promises, nor of the calls that the program makes.
LiveSpec == Spec /\ WF_vars(\E c \in 1..MaxCalls : Join(c))

\* ------------------------------------------------------------------ claims
\* The resolveFactory calls of the last operation, and those made by the
\* batch itself (not from inside a build).
Events == {last.events[i] : i \in 1..Len(last.events)}
TopEvents == {e \in Events : e.depth = 0}

\* The factory registered last under a name (NoHandle: never registered).
LatestHandle(nm) ==
  LET S == {i \in 1..Len(handles) : handles[i].name = nm}
  IN IF S = {} THEN NoHandle ELSE CHOOSE i \in S : \A j \in S : j <= i

\* The factory an event's token stands for.
FactoryOf(e) == IF e.tok.ref THEN e.reg ELSE e.tok.h

\* C1 (as claimed): two resolutions of a name with no invalidation between
\* them yield the identical value or pending-result object: a resolution
\* returns what the previous resolution of its name returned.
C1_Singleton ==
  \A e \in Events : (e.out = "ret" /\ e.prevRet # Absent) => e.ret = e.prevRet

\* C2 (as claimed): within one cache generation of a name the build function
\* is invoked at most once: no build is invoked for a name of which a
\* resolution has already returned a value since the last invalidation.
C2_AtMostOnceInitiation ==
  \A e \in Events : e.built # NoHandle => e.prevRet = Absent

\* C3: on a cache miss a Factory handle runs its own build, whatever the
\* registry holds for its name, and a Reference runs the build registered
\* under its name at that moment.
C3_TokenDecidesBuild ==
  \A e \in Events :
    (~e.hit /\ e.out # "NotFound") =>
       /\ ~e.tok.ref => e.built = e.tok.h
       /\ e.tok.ref => e.built = e.reg

\* C3 witness: a handle whose registry entry was overwritten ran its own build.
C3_Witness ==
  \E e \in Events : ~e.tok.ref /\ ~e.hit /\ e.out = "ret" /\ e.reg # e.tok.h /\ e.built = e.tok.h

\* C4 (as claimed): every fresh build of a name runs the build function
\* registered last under that name.
C4_AlwaysLatestBuild ==
  \A e \in Events : e.built # NoHandle => e.built = LatestHandle(e.tok.name)

\* C4 (amended): the registry keeps only the factory registered last under a
\* name, and every fresh build through a Reference runs that factory; a
\* fresh build through a Factory handle runs the handle's own build.
C4_LatestForReferences ==
  /\ \A nm \in Names : factories[nm] = LatestHandle(nm)
  /\ \A e \in Events :
       e.built # NoHandle =>
         e.built = IF e.tok.ref THEN LatestHandle(e.tok.name) ELSE e.tok.h

\* C4 witness: a name registered twice was built through a Reference.
C4_Witness ==
  \E e \in Events :
    /\ e.tok.ref /\ e.out = "ret" /\ e.built = LatestHandle(e.tok.name)
    /\ Cardinality({i \in 1..Len(handles) : handles[i].name = e.tok.name}) = 2

\* C5 (as claimed): register and registerAsync leave the instance cache as it
\* is, and a resolution of a name that has a cache entry returns that entry.
C5_RegisterKeepsCache ==
  [][/\ last'.op \in {"register", "registerAsync"} => instances' = instances
     /\ \A i \in 1..Len(last'.events) :
          LET e == last'.events[i]
          IN (e.had # Absent /\ e.out = "ret") => e.ret = e.had]_vars

\* C6 (as claimed): the first resolution of a name after clearInstance(name)
\* invokes the build function and caches what it returns, which differs from
\* the instance that the invalidation removed.  (Stated for a removed entry
\* that held a defined value; entries that hold undefined are C1's subject.)
C6_FreshInstanceAfterClear ==
  \A e \in Events :
    (e.inval.by = "clearInstance" /\ e.inval.old \notin {Absent, Undef}) =>
       /\ e.built # NoHandle
       /\ e.out = "ret" => (e.cached = e.ret /\ e.ret # e.inval.old)

\* C6 (amended): the first resolution of a name after clearInstance(name)
\* invokes the build function and caches what it returns; a fresh object or a
\* new pending result differs from the instance that the invalidation removed.
C6_RebuildAfterClear ==
  \A e \in Events :
    (e.inval.by = "clearInstance" /\ e.inval.old # Absent) =>
       /\ e.built # NoHandle
       /\ e.out = "ret" =>
            /\ e.cached = e.ret
            /\ e.ret.t \in {"obj", "promise"} => e.ret # e.inval.old

\* C6 witness: an object was cached, invalidated, and the next resolution
\* cached another object.
C6_Witness ==
  \E e \in Events :
    /\ e.inval.by = "clearInstance" /\ e.inval.old.t = "obj"
    /\ e.out = "ret" /\ e.ret.t = "obj" /\ instances[e.tok.name] = e.ret

\* C7 (as claimed): a Reference whose name is not registered makes resolve
\* and resolveAsync throw NotFound out of the call, with no value, no build
\* and no cache entry for the name.
C7_NotFoundThrown ==
  \A e \in TopEvents :
    (e.tok.ref /\ e.reg = NoHandle) =>
       /\ last.outcome = "NotFound"
       /\ \A nm \in Names : last.result[nm] = Absent
       /\ e.built = NoHandle
       /\ instances[e.tok.name] = Absent

\* C7 (amended): resolve throws NotFound out of the call; resolveAsync
\* returns a promise that is already rejected with NotFound and never waits.
\* Neither yields a value, invokes a build for the token or adds a cache
\* entry for the name.
C7_NotFoundRaised ==
  \A e \in TopEvents :
    (e.tok.ref /\ e.reg = NoHandle) =>
       /\ e.out = "NotFound"
       /\ last.op = "resolve" => last.outcome = "NotFound"
       /\ last.op = "resolveAsync" =>
            /\ last.outcome = "rejected"
            /\ last.call.status = "rejected"
            /\ last.call.err = "NotFound"
            /\ \A nm \in Names : last.call.result[nm] = Absent
       /\ \A nm \in Names : last.result[nm] = Absent
       /\ e.built = NoHandle
       /\ instances[e.tok.name] = Absent

\* C7 witness: resolveAsync met an unregistered Reference after it had built
\* another token of the batch.
C7_Witness ==
  /\ last.op = "resolveAsync"
  /\ \E e \in TopEvents : e.tok.ref /\ e.reg = NoHandle
  /\ \E e \in TopEvents : e.built # NoHandle

\* What C8 says of the resolutions: a Reference to a registered name is
\* found, and when the name has no cache entry the build registered last
\* under the name runs and its output is what the Reference yields.
C8_Resolutions ==
  \A e \in Events :
    (e.tok.ref /\ LatestHandle(e.tok.name) # NoHandle) =>
       /\ e.out # "NotFound"
       /\ e.had = Absent =>
            /\ e.built = LatestHandle(e.tok.name)
            /\ e.out = "ret" => e.ret = e.cached

\* C8: reference(name) changes neither the registry nor the cache and needs
\* no registration; a Reference resolves once its name is registered and
\* yields the output of the build registered last before its first resolution.
C8_ReferenceIsDeferred ==
  [][/\ last'.op = "reference" =>
          (factories' = factories /\ instances' = instances /\ handles' = handles)
     /\ C8_Resolutions']_vars

\* C8 witness: a Reference made before its name was registered yields the
\* output of the second factory registered under the name.
C8_Witness ==
  \E e \in TopEvents :
    /\ e.tok.ref /\ refs[e.tok.name] = "early"
    /\ e.out = "ret" /\ e.built = 2 /\ handles[1].name = e.tok.name
    /\ last.op = "resolve" /\ last.result[e.tok.name] = e.ret

\* C9: resolveAsync returns its mapping only when every promise of its batch
\* is fulfilled, and the mapping then holds a settled value, never a promise,
\* under the name of every token: the fulfilment value for a promise.
C9_MappingIsSettled ==
  (last.op = "join" /\ last.outcome = "returned") =>
     /\ \A i \in 1..Len(last.call.waits) :
          /\ pstate[last.call.waits[i].p] = "fulfilled"
          /\ last.result[last.call.waits[i].name] = ValOf(last.call.waits[i].p)
     /\ \A nm \in last.call.names : last.result[nm] # Absent /\ ~IsPromise(last.result[nm])
     /\ \A nm \in Names \ last.call.names : last.result[nm] = Absent

\* C9 witness: a batch that waited for the promises of two asynchronous
\* builds returned its mapping.
C9_Witness ==
  /\ last.op = "join" /\ last.outcome = "returned"
  /\ Len(last.call.waits) = 2
  /\ last.call.waits[1].p # last.call.waits[2].p

\* C10 (as claimed): resolve completes in one step, and for a token whose
\* factory is asynchronous the result field is the pending-result object
\* held in the cache.
C10_AsyncFieldIsPromise ==
  last.op = "resolve" =>
     /\ last.outcome \in {"returned", "NotFound", "BuildFailure"}
     /\ last.call = NoCall
     /\ last.outcome = "returned" =>
          \A e \in TopEvents :
            handles[FactoryOf(e)].kind = "async" =>
               /\ IsPromise(last.result[e.tok.name])
               /\ last.result[e.tok.name] = instances[e.tok.name]

\* C10 (amended): resolve completes in one step and waits for nothing; for a
\* token whose resolution ran an asynchronous build or found a pending-result
\* object in the cache, the result field is that object, the one held in the
\* cache, not its eventual value.  (A token whose name has a cache entry that
\* is no promise gets that entry, even if its factory is asynchronous.)
C10_PromiseIsHandedOver ==
  last.op = "resolve" =>
     /\ last.outcome \in {"returned", "NotFound", "BuildFailure"}
     /\ last.call = NoCall
     /\ last.outcome = "returned" =>
          \A e \in TopEvents :
            /\ (e.built # NoHandle /\ handles[e.built].kind = "async") => IsPromise(e.ret)
            /\ IsPromise(e.ret) =>
                 /\ last.result[e.tok.name] = e.ret
                 /\ instances[e.tok.name] = e.ret

\* C10 witness: resolve returned the promise of an asynchronous build that it
\* started, still pending.
C10_Witness ==
  /\ last.op = "resolve" /\ last.outcome = "returned"
  /\ \E e \in TopEvents :
       /\ e.built # NoHandle /\ handles[e.built].kind = "async"
       /\ last.result[e.tok.name] = e.ret
       /\ pstate[e.ret.id] = "pending"

\* What C11 says of a call that has just begun to wait: every name of its
\* batch has been resolved, from the cache or by a build that ran, and every
\* promise that a token yielded exists and is among those the call awaits.
C11_AllStarted ==
  (last.op = "resolveAsync" /\ last.outcome = "promise") =>
     /\ \A nm \in last.call.names :
          \E e \in TopEvents :
            e.tok.name = nm /\ e.out = "ret" /\ (e.hit \/ e.built # NoHandle)
     /\ \A e \in TopEvents :
          IsPromise(e.ret) =>
            \E i \in 1..Len(last.call.waits) :
              last.call.waits[i] = [p |-> e.ret.id, name |-> e.tok.name]
     /\ \A i \in 1..Len(last.call.waits) : last.call.waits[i].p \in 1..Len(pstate)

\* C11: within one resolveAsync batch every build named by the batch has been
\* started or taken from the cache before the call waits, and the steps of
\* the call after it began to wait (the callbacks of a settled promise, the
\* completion of the join) resolve nothing and start no build.
C11_ConcurrentStart ==
  [][/\ C11_AllStarted'
     /\ last'.op \in {"settle", "join"} =>
          /\ last'.events = <<>>
          /\ Len(pstate') = Len(pstate)
          /\ nobj' = nobj
          /\ instances' = instances]_vars

\* C11 witness: a call waits for two pending promises, one taken from the
\* cache and one of a build that the batch started.
C11_Witness ==
  /\ last.op = "resolveAsync" /\ last.outcome = "promise"
  /\ Len(last.call.waits) = 2
  /\ \A i \in 1..2 : pstate[last.call.waits[i].p] = "pending"
  /\ \E e \in TopEvents : e.hit /\ IsPromise(e.ret)
  /\ \E e \in TopEvents : e.built # NoHandle /\ IsPromise(e.ret)

\* A call has failed exactly when one of the promises it awaits is rejected,
\* and the rejection it failed with is that of one of them.
C12_Observed(c) ==
  /\ c.failed # 0 <=> \E i \in 1..Len(c.waits) : pstate[c.waits[i].p] = "rejected"
  /\ c.failed # 0 =>
       /\ pstate[c.failed] = "rejected"
       /\ \E i \in 1..Len(c.waits) : c.waits[i].p = c.failed

\* What C12 says of single states: a call that awaits a rejected promise has
\* failed; of the promises already rejected when the call begins to wait,
\* the first of the batch is the one it fails with; a join that ends with a
\* rejected promise among those awaited is a rejection and carries no mapping.
C12_Rejections ==
  /\ \A c \in 1..Len(calls) : C12_Observed(calls[c])
  /\ (last.op = "resolveAsync" /\ last.outcome = "promise") =>
       \A i \in 1..Len(last.call.waits) :
         pstate[last.call.waits[i].p] = "rejected" =>
           \E j \in 1..i : last.call.waits[j].p = last.call.failed
  /\ last.op = "join" =>
       /\ C12_Observed(last.call)
       /\ last.outcome = "rejected" <=> last.call.failed # 0
       /\ last.outcome = "rejected" =>
            /\ last.call.status = "rejected"
            /\ last.call.err = "BuildFailure"
            /\ \A nm \in Names : last.result[nm] = Absent /\ last.call.result[nm] = Absent

\* C12: if a promise of a resolveAsync batch rejects, the call fails with the
\* first rejection it observed (a later rejection does not replace it, and
\* the join ends with it) and yields no mapping, whatever the other promises
\* of the batch do.
C12_FailsOnFirstRejection ==
  [][/\ C12_Rejections'
     /\ \A c \in 1..Len(calls) :
          calls[c].failed # 0 =>
            /\ Len(calls') = Len(calls) => calls'[c].failed = calls[c].failed
            /\ last'.op = "join" => last'.call.failed = calls[c].failed]_vars

\* C12 witness: a call that awaited two promises failed with the rejection
\* of one of them while the other was fulfilled.
C12_Witness ==
  /\ last.op = "join" /\ last.outcome = "rejected"
  /\ Len(last.call.waits) = 2
  /\ \E i \in 1..2 : pstate[last.call.waits[i].p] = "fulfilled"
  /\ pstate[last.call.failed] = "rejected"

\* The resolutions of the last operation that found a rejected promise in
\* the cache.
C13_RejectedHits ==
  {e \in Events : IsPromise(e.had) /\ pstate[e.had.id] = "rejected"}

\* C13 (as claimed): once the promise of an asynchronous build has rejected,
\* every later resolution of its name fails (resolve throws, resolveAsync is
\* rejected) without invoking the build again, and the entry stays cached.
C13_EveryResolutionFails ==
  \A e \in C13_RejectedHits :
    e.depth = 0 =>
      /\ e.built = NoHandle
      /\ e.cached = e.had
      /\ last.op = "resolve" => last.outcome = "BuildFailure"
      /\ last.op = "resolveAsync" => (last.outcome = "rejected" \/ last.call.failed # 0)

\* What the amended C13 says of the resolutions of one operation.
C13_Resolutions ==
  /\ \A e \in C13_RejectedHits :
       /\ e.hit /\ e.out = "ret" /\ e.ret = e.had
       /\ e.built = NoHandle
       /\ e.cached = e.had
  /\ \A e \in C13_RejectedHits \cap TopEvents :
       /\ (last.op = "resolve" /\ last.outcome = "returned") =>
            last.result[e.tok.name] = e.had
       /\ (last.op = "resolveAsync" /\ last.outcome = "promise") =>
            /\ last.call.failed # 0
            /\ last.call.waits[1].p = e.had.id => last.call.failed = e.had.id

\* C13 (amended): once the promise of an asynchronous build has rejected, its
\* cache entry stays in place until clearInstance(name) or clearAllInstances,
\* and every resolution of the name finds it and invokes no build.  A
\* resolveAsync call that comes to await it fails, with that rejection when
\* it is the first promise of the batch; resolve does not fail: it returns
\* the rejected promise itself in its mapping.
C13_RejectionStaysCached ==
  [][/\ C13_Resolutions'
     /\ \A nm \in Names :
          IsPromise(instances[nm]) =>
            /\ pstate[instances[nm].id] = "rejected" => pstate'[instances[nm].id] = "rejected"
            /\ (/\ pstate'[instances[nm].id] = "rejected"
                /\ ~(last'.op = "clearInstance" /\ last'.name = nm)
                /\ last'.op # "clearAllInstances") => instances'[nm] = instances[nm]]_vars

\* C13 witness: a promise was rejected after it was cached, and a later
\* resolveAsync of its name took it from the cache and failed with it.
C13_Witness ==
  /\ last.op = "resolveAsync" /\ last.outcome = "promise"
  /\ \E e \in C13_RejectedHits \cap TopEvents :
       /\ e.hit /\ e.built = NoHandle
       /\ last.call.failed = e.had.id
       /\ instances[e.tok.name] = e.had

\* C14: an invalidation cancels nothing: clearInstance and clearAllInstances
\* leave the waiting calls and the promises as they are; the settlement of a
\* promise and the completion of a call write nothing into the cache; a call
\* that returns yields the value of each promise it awaited, whatever the
\* cache holds by then; and the first resolution of a name after the
\* invalidation that removed its promise starts a build and caches what the
\* build returns, which is not the promise removed.
C14_InvalidationKeepsBuild ==
  [][/\ last'.op \in {"clearInstance", "clearAllInstances"} =>
          (calls' = calls /\ pstate' = pstate)
     /\ last'.op \in {"settle", "join"} => instances' = instances
     /\ (last'.op = "join" /\ last'.outcome = "returned") =>
          \A i \in 1..Len(last'.call.waits) :
            last'.result[last'.call.waits[i].name] = ValOf(last'.call.waits[i].p)
     /\ \A i \in 1..Len(last'.events) :
          LET e == last'.events[i]
          IN IsPromise(e.inval.old) =>
               /\ e.built # NoHandle
               /\ e.out = "ret" => (e.cached = e.ret /\ e.ret # e.inval.old)]_vars

\* C14 witness: a call returned the value of the promise it awaited although
\* the entry of that promise had been invalidated and a later resolution had
\* cached the promise of a fresh build, still pending.
C14_Witness ==
  /\ last.op = "join" /\ last.outcome = "returned"
  /\ \E i \in 1..Len(last.call.waits) :
       LET w == last.call.waits[i]
       IN /\ last.result[w.name] = ValOf(w.p)
          /\ IsPromise(instances[w.name])
          /\ instances[w.name] # Prom(w.p)
          /\ pstate[instances[w.name].id] = "pending"

\* C15: every name that has an entry in the instance cache has an entry in
\* the registry, made by a registration of that name.
C15_CachedIsRegistered ==
  \A nm \in Names :
    instances[nm] # Absent =>
      /\ factories[nm] # NoHandle
      /\ handles[factories[nm]].name = nm

\* C15 witness: one name is registered and cached, and another is registered
\* and has no cache entry.
C15_Witness ==
  \E nm, other \in Names :
    /\ instances[nm] # Absent /\ factories[nm] # NoHandle
    /\ instances[other] = Absent /\ factories[other] # NoHandle

\* C16: clearInstance(name) removes the cache entry of name and leaves every
\* other cache entry and the registry as they are; clearAllInstances removes
\* every cache entry and leaves the registry as it is; no step removes a
\* registry entry.
C16_ClearFrame ==
  [][/\ last'.op = "clearInstance" =>
          /\ instances'[last'.name] = Absent
          /\ \A nm \in Names \ {last'.name} : instances'[nm] = instances[nm]
          /\ factories' = factories
     /\ last'.op = "clearAllInstances" =>
          /\ \A nm \in Names : instances'[nm] = Absent
          /\ factories' = factories
     /\ \A nm \in Names : factories[nm] # NoHandle => factories'[nm] # NoHandle]_vars

\* C16 witness: clearInstance removed the entry of one name while another
\* name kept its entry.
C16_Witness ==
  /\ last.op = "clearInstance"
  /\ inval[last.name].old # Absent
  /\ instances[last.name] = Absent
  /\ \E nm \in Names \ {last.name} : instances[nm] # Absent

\* C17 (as claimed): after clearAllInstances, the resolutions of a name that
\* was cached before invoke its build exactly once more: the first of them
\* invokes a build, and no other resolution of the name in the batch does.
C17_ExactlyOnceMore ==
  \A i \in 1..Len(last.events) :
    LET e == last.events[i]
    IN (e.inval.by = "clearAllInstances" /\ e.inval.old # Absent) =>
         /\ e.built # NoHandle
         /\ \A j \in 1..Len(last.events) :
              (j # i /\ last.events[j].tok.name = e.tok.name) =>
                 last.events[j].built = NoHandle

\* C18: clearInstance and clearAllInstances never fail; either of them
\* applied right after itself (clearInstance with the same name) leaves the
\* registry and the cache as the first application left them; clearInstance
\* of a name that has no cache entry, registered or not, changes neither.
C18_ClearIdempotent ==
  [][/\ last'.op \in {"clearInstance", "clearAllInstances"} => last'.outcome = "returned"
     /\ (last.op = "clearInstance" /\ last'.op = "clearInstance" /\ last'.name = last.name) =>
          (instances' = instances /\ factories' = factories)
     /\ (last.op = "clearAllInstances" /\ last'.op = "clearAllInstances") =>
          (instances' = instances /\ factories' = factories)
     /\ (last'.op = "clearInstance" /\ instances[last'.name] = Absent) =>
          (instances' = instances /\ factories' = factories)]_vars

\* C18 witness: clearInstance was applied to a name that is not registered
\* and has no cache entry, while another name has one.
C18_Witness ==
  /\ last.op = "clearInstance" /\ last.outcome = "returned"
  /\ factories[last.name] = NoHandle
  /\ inval[last.name].old = Absent
  /\ \E nm \in Names : instances[nm] # Absent

\* C19 (as claimed): a cache entry is neither removed nor replaced by a step
\* other than clearInstance of its name or clearAllInstances: registrations,
\* resolutions and settlements leave it the same object.
C19_EntryIsStable ==
  [][\A nm \in Names :
       (/\ instances[nm] # Absent
        /\ ~(last'.op = "clearInstance" /\ last'.name = nm)
        /\ last'.op # "clearAllInstances") => instances'[nm] = instances[nm]]_vars

\* C20 (as claimed): a batch that names a name twice invokes the build for
\* the name at most once and creates one cache entry: the second token finds
\* the entry the first one made; the mapping of resolve holds that entry
\* under the name, and resolveAsync awaits that entry alone for the name.
C20_DuplicatesCollapse ==
  \A i, j \in 1..Len(last.events) :
    LET e == last.events[i]
        f == last.events[j]
    IN (i < j /\ e.depth = 0 /\ f.depth = 0 /\ e.tok.name = f.tok.name) =>
         /\ ~(e.built # NoHandle /\ f.built # NoHandle)
         /\ (e.out = "ret" /\ f.out = "ret") => (f.hit /\ f.ret = e.ret /\ f.cached = e.cached)
         /\ (last.op = "resolve" /\ last.outcome = "returned") =>
              last.result[e.tok.name] = instances[e.tok.name]
         /\ (last.op = "resolveAsync" /\ last.outcome = "promise" /\ IsPromise(e.ret)) =>
              \A k \in 1..Len(last.call.waits) :
                last.call.waits[k].name = e.tok.name => last.call.waits[k].p = e.ret.id

\* The resolution from inside whose build the nested resolution i was made
\* (0: none, i is a token of the batch).
C21_Parent(evs, i) ==
  LET S == {j \in (i + 1)..Len(evs) : evs[j].depth = evs[i].depth - 1}
  IN IF S = {} THEN 0 ELSE CHOOSE j \in S : \A k \in S : j <= k

\* The last resolution of name nm among evs (0: none), and the first.
C21_LastOf(evs, nm) ==
  LET S == {j \in 1..Len(evs) : evs[j].tok.name = nm}
  IN IF S = {} THEN 0 ELSE CHOOSE j \in S : \A k \in S : k <= j
C21_FirstOf(evs, nm) ==
  LET S == {j \in 1..Len(evs) : evs[j].tok.name = nm}
  IN IF S = {} THEN 0 ELSE CHOOSE j \in S : \A k \in S : j <= k

\* What a resolution that fails leaves in the cache for its name if it
\* writes nothing: what the last resolution of the name made from inside its
\* build left there, or, with none, what it found.
C21_Untouched(evs, i) ==
  LET S == {j \in 1..(i - 1) :
              /\ evs[j].tok.name = evs[i].tok.name
              /\ \A k \in j..(i - 1) : evs[k].depth > evs[i].depth}
  IN IF S = {} THEN evs[i].had ELSE evs[CHOOSE j \in S : \A k \in S : k <= j].cached

\* What C21 says of the resolutions of one operation: a resolution whose
\* build throws found no entry for its name, yields nothing and writes
\* nothing into the cache; the failure reaches the caller of the resolve or
\* resolveAsync call it was made by (resolve throws, resolveAsync is rejected;
\* for a call made by a build, that build fails: it throws, or the promise it
\* returns is rejected); and the next resolution of the name, which still
\* has no entry, invokes a build.
C21_Resolutions ==
  \A i \in 1..Len(last.events) :
    LET e == last.events[i]
    IN e.out = "BuildFailure" =>
         /\ e.built # NoHandle /\ ~e.hit /\ e.ret = Absent
         /\ e.had \in {Absent, Undef}
         /\ e.cached = C21_Untouched(last.events, i)
         /\ e.depth = 0 =>
              /\ last.op = "resolve" => last.outcome = "BuildFailure"
              /\ last.op = "resolveAsync" =>
                   /\ last.outcome = "rejected"
                   /\ last.call.status = "rejected" /\ last.call.err = "BuildFailure"
              /\ \A nm \in Names : last.result[nm] = Absent
         /\ e.depth > 0 =>
              LET q == C21_Parent(last.events, i)
              IN /\ q # 0
                 /\ last.events[q].built # NoHandle
                 /\ \/ last.events[q].out = "BuildFailure"
                    \/ /\ IsPromise(last.events[q].ret)
                       /\ pstate[last.events[q].ret.id] = "rejected"
         /\ \A j \in (i + 1)..Len(last.events) :
              (/\ last.events[j].tok.name = e.tok.name
               /\ e.cached \in {Absent, Undef}
               /\ \A k \in (i + 1)..(j - 1) : last.events[k].tok.name # e.tok.name) =>
                 last.events[j].built # NoHandle

\* C21: a synchronous build failure is not cached: the failure surfaces to
\* the caller, the failing resolution adds no cache entry for the name, and
\* the next resolution of the name, in the same operation or in the next
\* one, invokes a build again.  (An entry that the name has after the
\* failure was put there by a resolution of the same name made from inside
\* the failing build, through another factory.)
C21_FailureNotCached ==
  [][/\ C21_Resolutions'
     /\ \A nm \in Names :
          LET l == C21_LastOf(last.events, nm)
              f == C21_FirstOf(last'.events, nm)
          IN (l # 0 /\ last.events[l].out = "BuildFailure") =>
               /\ instances[nm] = last.events[l].cached
               /\ (f # 0 /\ instances[nm] \in {Absent, Undef}) =>
                    last'.events[f].built # NoHandle]_vars

\* C21 witness: the build of a name threw inside an asynchronous build, the
\* name got no cache entry, and the next token of the batch, the name itself,
\* invoked the build again, which threw out of resolve.
C21_Witness ==
  /\ last.op = "resolve" /\ last.outcome = "BuildFailure"
  /\ \E i, j \in 1..Len(last.events) :
       /\ i < j
       /\ last.events[i].tok.name = last.events[j].tok.name
       /\ last.events[i].out = "BuildFailure" /\ last.events[i].depth = 1
       /\ last.events[j].out = "BuildFailure" /\ last.events[j].depth = 0
       /\ last.events[j].built # NoHandle
       /\ instances[last.events[j].tok.name] = Absent

\* The positions in last.events of the resolutions made for the tokens of
\* the batch, in the order in which they were made.
C22_Top == {i \in 1..Len(last.events) : last.events[i].depth = 0}
C22_Rank(i) == Cardinality({j \in C22_Top : j <= i})

\* C22: a batch is processed in input order and is not atomic.  The k-th
\* resolution made for the batch is that of token k, and the resolutions
\* made from inside its build come right before its own end.  When a token
\* fails (NotFound or a throwing build), it is the last one resolved: the
\* tokens after it are not resolved and no build runs for them; the tokens
\* before it have yielded their values, and their cache entries stay: the
\* cache is as the last resolution of each name left it.
C22_InOrderNotAtomic ==
  last.op \in {"resolve", "resolveAsync"} =>
     LET failed == last.outcome \in {"NotFound", "BuildFailure", "rejected"}
     IN /\ \A i \in C22_Top :
             /\ C22_Rank(i) <= Len(last.tokens)
             /\ last.events[i].tok = last.tokens[C22_Rank(i)]
        /\ ~failed =>
             /\ Cardinality(C22_Top) = Len(last.tokens)
             /\ \A i \in C22_Top : last.events[i].out = "ret"
        /\ failed =>
             /\ Len(last.events) \in C22_Top
             /\ last.events[Len(last.events)].out \in {"NotFound", "BuildFailure"}
             /\ last.op = "resolve" => last.outcome = last.events[Len(last.events)].out
             /\ \A i \in C22_Top \ {Len(last.events)} :
                  /\ last.events[i].out = "ret"
                  /\ instances[last.events[i].tok.name] # Absent
        /\ \A i \in 1..Len(last.events) :
             (\A j \in (i + 1)..Len(last.events) :
                last.events[j].tok.name # last.events[i].tok.name) =>
                  instances[last.events[i].tok.name] = last.events[i].cached

\* C22 witness: the second token of a resolve batch failed after the first
\* had run a build; the entry of the first is in the cache.
C22_Witness ==
  /\ last.op = "resolve" /\ last.outcome \in {"NotFound", "BuildFailure"}
  /\ Len(last.tokens) = 2
  /\ C22_Top = {1, Len(last.events)} /\ Len(last.events) > 1
  /\ last.events[1].built # NoHandle /\ last.events[1].out = "ret"
  /\ last.events[1].tok.name # last.tokens[2].name
  /\ instances[last.events[1].tok.name] = last.events[1].ret
  /\ last.events[1].ret # Undef

\* A resolveAsync call waits, and every promise it awaits has settled.
C23_AllSettled ==
  /\ calls # <<>>
  /\ \A c \in 1..Len(calls) : \A i \in 1..Len(calls[c].waits) :
       pstate[calls[c].waits[i].p] # "pending"

====
